---- MODULE Spec2Model ----
(***************************************************************************)
(* tsh - a tiny shell with job control (src/tsh.c).                        *)
(*                                                                         *)
(* The model has these specifications over one set of variables:           *)
(*   Spec      the shell: the read/eval loop, the three signal handlers    *)
(*             running on top of it, and the kernel's view of the children *)
(*   ObsSpec   the same shell with what it prints and the kill() calls it  *)
(*             makes recorded                                              *)
(*   LiveSpec  the shell running external commands, with the scheduling    *)
(*             the kernel gives it                                         *)
(*   BootSpec  the shell from the first statement of main                  *)
(*   RegSpec   the job list helpers addjob/deletejob applied directly to   *)
(*             the 16-slot table                                           *)
(*   FullSpec  the shell with sixteen background jobs already running, so  *)
(*             that every slot of the table is taken                       *)
(***************************************************************************)
EXTENDS Integers, Sequences, FiniteSets, TLC

(***************************************************************************)
(* Program constants                                                       *)
(***************************************************************************)
MAXJOBS == 16

UNDEF == 0

FG == 1

BG == 2

ST == 3

(***************************************************************************)
(* Bounds of the model                                                     *)
(***************************************************************************)
\* the kernel hands out the pids 1..MaxPid
MaxPid == 2

\* the shell launches a command only while nextjid <= MaxJid
MaxJid == 3

\* RegSpec: number of deletejob calls in one run
MaxRegDeletes == 1

(***************************************************************************)
(* The job list                                                            *)
(***************************************************************************)
Slots == 1..MAXJOBS

Pids == 1..MaxPid

SIGCHLD == "SIGCHLD"

SIGINT == "SIGINT"

SIGTSTP == "SIGTSTP"

SIGCONT == "SIGCONT"

\* the command lines typed at the prompt: the trailing & asks for a background job
FgCmdline == "/bin/prog\n"

BgCmdline == "/bin/prog &\n"

\* struct job_t after clearjob
EmptyJob == [pid |-> 0, jid |-> 0, state |-> UNDEF, cmdline |-> ""]

clearjob(job) == [job EXCEPT !.pid = 0, !.jid = 0, !.state = UNDEF, !.cmdline = ""]

initjobs == [i \in Slots |-> clearjob(EmptyJob)]

\* the first slot of S, 0 when there is none (the for loops over jobs[])
FirstSlot(S) == IF S = {} THEN 0 ELSE CHOOSE i \in S : \A k \in S : i <= k

maxjid(J) == LET S == {J[i].jid : i \in Slots} \cup {0}
             IN CHOOSE m \in S : \A x \in S : x <= m

\* nextjid after addjob has handed out nj
WrapNextjid(nj) == IF nj + 1 > MAXJOBS THEN 1 ELSE nj + 1

\* addjob storing into the last slot when no slot is empty
addjob_clobbers(J, nj, pid, state, cmdline) ==
    IF pid < 1
    THEN [jobs |-> J, nextjid |-> nj, ret |-> 0, msg |-> "", slot |-> 0]
    ELSE LET i == FirstSlot({k \in Slots : J[k].pid = 0})
             job == [pid |-> pid, jid |-> nj, state |-> state, cmdline |-> cmdline]
         IN IF i # 0
            THEN [jobs |-> [J EXCEPT ![i] = job],
                  nextjid |-> WrapNextjid(nj), ret |-> 1, msg |-> "", slot |-> i]
            ELSE [jobs |-> [J EXCEPT ![MAXJOBS] = job], nextjid |-> nj, ret |-> 0,
                  msg |-> "Tried to create too many jobs", slot |-> 0]

\* addjob: the new table, the new nextjid, the return value and what it printed
addjob(J, nj, pid, state, cmdline) ==
    IF pid < 1
    THEN [jobs |-> J, nextjid |-> nj, ret |-> 0, msg |-> "", slot |-> 0]
    ELSE LET i == FirstSlot({k \in Slots : J[k].pid = 0})
         IN IF i # 0
            THEN [jobs |-> [J EXCEPT ![i] = [pid |-> pid, jid |-> nj,
                                             state |-> state, cmdline |-> cmdline]],
                  nextjid |-> WrapNextjid(nj), ret |-> 1, msg |-> "", slot |-> i]
            ELSE [jobs |-> J, nextjid |-> nj, ret |-> 0,
                  msg |-> "Tried to create too many jobs", slot |-> 0]

\* deletejob leaving nextjid as it was
deletejob_keeps_nextjid(J, nj, pid) ==
    IF pid < 1
    THEN [jobs |-> J, nextjid |-> nj, ret |-> 0, slot |-> 0]
    ELSE LET i == FirstSlot({k \in Slots : J[k].pid = pid})
         IN IF i # 0
            THEN [jobs |-> [J EXCEPT ![i] = clearjob(J[i])], nextjid |-> nj,
                  ret |-> 1, slot |-> i]
            ELSE [jobs |-> J, nextjid |-> nj, ret |-> 0, slot |-> 0]

\* deletejob: the new table, the new nextjid and the return value
deletejob(J, nj, pid) ==
    IF pid < 1
    THEN [jobs |-> J, nextjid |-> nj, ret |-> 0, slot |-> 0]
    ELSE LET i == FirstSlot({k \in Slots : J[k].pid = pid})
         IN IF i # 0
            THEN LET J2 == [J EXCEPT ![i] = clearjob(J[i])]
                 IN [jobs |-> J2, nextjid |-> maxjid(J2) + 1, ret |-> 1, slot |-> i]
            ELSE [jobs |-> J, nextjid |-> nj, ret |-> 0, slot |-> 0]

\* fgpid: pid of the first slot whose state is FG, 0 if there is none
fgpid(J) == LET i == FirstSlot({k \in Slots : J[k].state = FG})
            IN IF i # 0 THEN J[i].pid ELSE 0

\* getjobpid / getjobjid: the slot found, 0 for NULL
getjobpid(J, pid) == IF pid < 1 THEN 0 ELSE FirstSlot({k \in Slots : J[k].pid = pid})

getjobjid(J, jid) == IF jid < 1 THEN 0 ELSE FirstSlot({k \in Slots : J[k].jid = jid})

pid2jid(J, pid) == LET i == getjobpid(J, pid) IN IF i # 0 THEN J[i].jid ELSE 0

(***************************************************************************)
(* Command-line arguments of bg and fg: argv[1] as a string of characters, *)
(* <<>> for a missing argument (argv[1] == NULL)                           *)
(***************************************************************************)
Digits == <<"0", "1", "2", "3", "4", "5", "6", "7", "8", "9">>

isdigit(c) == \E d \in 1..10 : Digits[d] = c

DigitVal(c) == (CHOOSE d \in 1..10 : Digits[d] = c) - 1

\* atoi: the value of the leading run of digits, 0 when there is none
RECURSIVE atoiAcc(_, _)
atoiAcc(s, acc) == IF s = <<>> \/ ~isdigit(Head(s))
                   THEN acc
                   ELSE atoiAcc(Tail(s), acc * 10 + DigitVal(Head(s)))

atoi(s) == atoiAcc(s, 0)

PidArg(p) == <<Digits[p + 1]>>

JidArg(j) == <<"%", Digits[j + 1]>>

\* the arguments tried: none, a word, a pid, a jid, digits followed by a
\* letter, % followed by a letter
BgFgArgs == {<<>>, <<"a">>, PidArg(1), JidArg(1), <<"1", "a">>, <<"%", "a">>}

(***************************************************************************)
(* State                                                                   *)
(***************************************************************************)
VARIABLES
    jobs,       \* struct job_t jobs[MAXJOBS]
    nextjid,    \* next job ID to allocate
    pc,         \* where the main control flow stands
    mask,       \* the shell's blocked signals
    prev_mask,  \* eval_prev_mask
    pending,    \* signals pending for the shell
    hstack,     \* the handlers running on top of the main flow, innermost last
    procs,      \* each child pid: "none", "child" (forked, in eval's child
                \* branch), "notfound" (its execve has failed), "parent" (it has
                \* run on into the parent's part of eval), "run" (its program
                \* runs), "stopping" (stopped, not yet reported by waitpid),
                \* "stopped", "zombie"
    chld_pid,   \* eval's chld_pid / waitfg's pid
    argv,       \* the command line last read, as parseline returns it
    wjob,       \* waitfg's job pointer (slot, 0 for none)
    obs,        \* whether the terminal and the kill() calls are being recorded
    typed,      \* recorded: the command line last read
    out,        \* recorded: the line the main flow printed last for that command
    lastkill,   \* recorded: the last kill() call, its process group and signal
    reg,        \* RegSpec: the last job-list call and its result
    handlers,   \* the signals whose handler Signal() has installed
    loop_i,     \* the loop variable i of initjobs and listjobs, as a slot (0 outside)
    added       \* recorded: the jid addjob stored for the background job eval launches

vars == <<jobs, nextjid, pc, mask, prev_mask, pending, hstack, procs, chld_pid,
          argv, wjob, obs, typed, out, lastkill, reg, handlers, loop_i, added>>

shellvars == <<pc, mask, prev_mask, pending, hstack, procs, chld_pid, argv, wjob,
               obs, typed, out, lastkill, handlers, loop_i, added>>

\* the new value of a recorded variable
Rec(old, new) == IF obs THEN new ELSE old

NoOut == [kind |-> "none", jid |-> 0, pid |-> 0, text |-> ""]

Line(kind, jid, pid, text) == [kind |-> kind, jid |-> jid, pid |-> pid, text |-> text]

\* no kill() call
NoKill == [pgid |-> -1, sig |-> "none"]

\* argv[0], argv[1] (<<>> for NULL) and parseline's background flag
Argv(cmd, arg, bg) == [cmd |-> cmd, arg |-> arg, bg |-> bg]

NoArgv == Argv("", <<>>, FALSE)

Prog == "/bin/prog"

\* the command line as typed, kept in the job for display
cmdline(av) == IF av.bg THEN BgCmdline ELSE FgCmdline

\* op: the call; pid: its argument; ret: its return value; jid: the jid a
\* successful addjob stored; prev: the jid stored by the successful addjob
\* before it when no deletejob came between (0 for none); full: every slot
\* was active when the call was made; dels: the deletejob calls so far
NoReg == [op |-> "none", pid |-> 0, ret |-> 0, jid |-> 0, prev |-> 0,
          full |-> FALSE, dels |-> 0]

\* a handler's frame: its signal, where it stands, the slot deletejob is
\* clearing (0 for none), and the mask its return restores
Frame(sig, step, slot, saved) ==
    [sig |-> sig, step |-> step, slot |-> slot, saved |-> saved]

Alive == pc \notin {"exited", "crashed"}

\* the main flow runs: no handler is on the stack and no signal waits to be
\* delivered (the kernel delivers a pending signal that is not blocked before
\* the interrupted code goes on)
InMain == Alive /\ hstack = <<>> /\ pending \ mask = {}

Top == hstack[Len(hstack)]

SetTop(f) == [hstack EXCEPT ![Len(hstack)] = f]

Pop == SubSeq(hstack, 1, Len(hstack) - 1)

\* eval blocking the keyboard signals only
eval_mask_no_chld == {SIGINT, SIGTSTP}

\* the signals eval blocks around fork and addjob
eval_mask == {SIGCHLD, SIGINT, SIGTSTP}

Start ==
    /\ jobs = initjobs
    /\ nextjid = 1
    /\ pc = "read"
    /\ mask = {}
    /\ prev_mask = {}
    /\ pending = {}
    /\ hstack = <<>>
    /\ procs = [p \in Pids |-> "none"]
    /\ chld_pid = 0
    /\ argv = NoArgv
    /\ wjob = 0
    /\ typed = NoArgv
    /\ out = NoOut
    /\ lastkill = NoKill
    /\ reg = NoReg
    /\ handlers = {SIGINT, SIGTSTP, SIGCHLD}
    /\ loop_i = 0
    /\ added = 0

Init == Start /\ obs = FALSE

\* the same shell with the recording on
ObsInit == Start /\ obs = TRUE

(***************************************************************************)
(* main: the read/eval loop                                                *)
(***************************************************************************)
\* fgets returns end of file, or the line is "quit": exit(0)
ReadQuit ==
    /\ InMain /\ pc = "read"
    /\ pc' = "exited"
    /\ typed' = Rec(typed, Argv("quit", <<>>, FALSE))
    /\ out' = Rec(out, NoOut)
    /\ UNCHANGED <<jobs, nextjid, mask, prev_mask, pending, hstack, procs,
                   chld_pid, argv, wjob, lastkill, obs, reg, handlers, loop_i, added>>

\* a blank line: parseline leaves argv[0] == NULL and eval returns
ReadBlank ==
    /\ InMain /\ pc = "read"
    /\ typed' = Rec(typed, NoArgv)
    /\ out' = Rec(out, NoOut)
    /\ UNCHANGED <<jobs, nextjid, pc, mask, prev_mask, pending, hstack, procs,
                   chld_pid, argv, wjob, lastkill, obs, reg, handlers, loop_i, added>>

\* listjobs' switch on the state of a job
StateLabel(state) ==
    CASE state = BG -> "Running"
      [] state = FG -> "Foreground"
      [] state = ST -> "Stopped"
      [] OTHER -> "Internal error"

\* the line is "jobs": builtin_cmd calls listjobs, which starts its loop.
\* listjobs runs with no signal blocked, so each read of the table is a step
ReadJobs ==
    /\ InMain /\ pc = "read"
    /\ typed' = Rec(typed, Argv("jobs", <<>>, FALSE))
    /\ out' = Rec(out, NoOut)
    /\ pc' = "list_test"
    /\ loop_i' = 1
    /\ UNCHANGED <<jobs, nextjid, mask, prev_mask, pending, hstack, procs,
                   chld_pid, argv, wjob, lastkill, obs, reg, handlers, added>>

\* if (jobs[i].pid != 0): the loop runs on to the next slot that passes the
\* test, and listjobs returns when there is none
ListTest ==
    /\ InMain /\ pc = "list_test"
    /\ LET k == FirstSlot({j \in Slots : j >= loop_i /\ jobs[j].pid # 0})
       IN IF k = 0
          THEN pc' = "read" /\ loop_i' = 0
          ELSE pc' = "list_head" /\ loop_i' = k
    /\ UNCHANGED <<jobs, nextjid, mask, prev_mask, pending, hstack, procs, chld_pid,
                   argv, wjob, obs, typed, out, lastkill, reg, handlers, added>>

\* printf("[%d] (%d) ", jobs[i].jid, jobs[i].pid)
ListHead ==
    /\ InMain /\ pc = "list_head"
    /\ out' = Rec(out, Line("", jobs[loop_i].jid, jobs[loop_i].pid, ""))
    /\ pc' = "list_state"
    /\ UNCHANGED <<jobs, nextjid, mask, prev_mask, pending, hstack, procs, chld_pid,
                   argv, wjob, obs, typed, lastkill, reg, handlers, loop_i, added>>

\* switch (jobs[i].state) and the printf of the label
ListState ==
    /\ InMain /\ pc = "list_state"
    /\ out' = Rec(out, [out EXCEPT !.kind = StateLabel(jobs[loop_i].state)])
    /\ pc' = "list_cmd"
    /\ UNCHANGED <<jobs, nextjid, mask, prev_mask, pending, hstack, procs, chld_pid,
                   argv, wjob, obs, typed, lastkill, reg, handlers, loop_i, added>>

\* printf("%s", jobs[i].cmdline) and i++
ListCmdline ==
    /\ InMain /\ pc = "list_cmd"
    /\ out' = Rec(out, [out EXCEPT !.text = jobs[loop_i].cmdline])
    /\ pc' = "list_test"
    /\ loop_i' = loop_i + 1
    /\ UNCHANGED <<jobs, nextjid, mask, prev_mask, pending, hstack, procs, chld_pid,
                   argv, wjob, obs, typed, lastkill, reg, handlers, added>>

\* do_bgfg's argument checks and lookup: the slot found (0 for none) and the
\* message printed.  sc is the value of the call strcmp(argv[1][0]) == 0 of
\* line 334, which passes one char where two strings are required: its value
\* is not determined by the source
bgfg_lookup(J, name, arg, sc) ==
    IF arg = <<>>
    THEN [slot |-> 0, out |-> Line("requires", 0, 0, name)]
    ELSE IF ~(isdigit(arg[1]) \/ sc)
    THEN [slot |-> 0, out |-> Line("must be", 0, 0, name)]
    ELSE IF isdigit(arg[1])
    THEN LET i == getjobpid(J, atoi(arg))
         IN IF i = 0 THEN [slot |-> 0, out |-> Line("No such process", 0, atoi(arg), "")]
            ELSE [slot |-> i, out |-> NoOut]
    ELSE LET i == getjobjid(J, atoi(Tail(arg)))
         IN IF i = 0 THEN [slot |-> 0, out |-> Line("No such job", 0, 0, "")]
            ELSE [slot |-> i, out |-> NoOut]

\* the two branches after the lookup (lines 354-358) are empty: no store to
\* the table, no kill(), no printf, no waitfg
do_bgfg_body(J, name, slot) ==
    [jobs |-> J, kill |-> NoKill, out |-> NoOut, wait |-> FALSE]

\* kill(-pid, sig) as the kernel carries it out: the processes signalled and
\* the shell's own pending set.  Group 0 is the caller's own process group.
\* A child still in eval's child branch is not ended or stopped by it: before
\* its setpgrp the group does not exist, and after it the signal is blocked
\* or caught by the handler the child has inherited
KillEffect(P, pgid, sig, pend) ==
    IF pgid = 0
    THEN [procs |-> P, pending |-> pend \cup {sig}]
    ELSE IF pgid \in Pids /\ P[pgid] = "run" /\ sig \in {SIGINT, SIGTSTP}
    THEN [procs |-> [P EXCEPT ![pgid] = IF sig = SIGINT THEN "zombie" ELSE "stopping"],
          pending |-> pend \cup {SIGCHLD}]
    ELSE IF pgid \in Pids /\ P[pgid] \in {"stopping", "stopped"} /\ sig = SIGCONT
    THEN [procs |-> [P EXCEPT ![pgid] = "run"], pending |-> pend]
    ELSE [procs |-> P, pending |-> pend]

ReadBgFg(name, arg) ==
    /\ InMain /\ pc = "read"
    /\ typed' = Rec(typed, Argv(name, arg, FALSE))
    /\ \E sc \in BOOLEAN :
         LET r == bgfg_lookup(jobs, name, arg, sc)
             b == do_bgfg_body(jobs, name, r.slot)
             k == KillEffect(procs, b.kill.pgid, b.kill.sig, pending)
         IN IF r.slot = 0
            THEN /\ out' = Rec(out, r.out)
                 /\ UNCHANGED <<jobs, procs, pending, pc, chld_pid, lastkill>>
            ELSE /\ out' = Rec(out, b.out)
                 /\ jobs' = b.jobs
                 /\ lastkill' = IF b.kill = NoKill THEN lastkill ELSE Rec(lastkill, b.kill)
                 /\ procs' = k.procs
                 /\ pending' = k.pending
                 /\ pc' = IF b.wait THEN "waitfg" ELSE "read"
                 /\ chld_pid' = IF b.wait THEN jobs[r.slot].pid ELSE chld_pid
    /\ UNCHANGED <<nextjid, mask, prev_mask, hstack, argv, wjob, obs, reg, handlers, loop_i, added>>

\* an external command: eval blocks SIGCHLD, SIGINT and SIGTSTP (line 198)
ReadExternal(bg) ==
    /\ InMain /\ pc = "read"
    /\ nextjid <= MaxJid
    /\ argv' = Argv(Prog, <<>>, bg)
    /\ typed' = Rec(typed, Argv(Prog, <<>>, bg))
    /\ out' = Rec(out, NoOut)
    /\ prev_mask' = mask
    /\ mask' = mask \cup eval_mask
    /\ pc' = "fork"
    /\ UNCHANGED <<jobs, nextjid, pending, hstack, procs, chld_pid, wjob, lastkill, obs, reg, handlers, loop_i, added>>

\* Fork: the kernel picks a free pid; with none left fork fails and
\* unix_error exits the shell
EvalFork ==
    /\ InMain /\ pc = "fork"
    /\ IF \E p \in Pids : procs[p] = "none"
       THEN \E p \in Pids :
              /\ procs[p] = "none"
              /\ procs' = [procs EXCEPT ![p] = "child"]
              /\ chld_pid' = p
              /\ pc' = "addjob"
       ELSE /\ pc' = "exited"
            /\ UNCHANGED <<procs, chld_pid>>
    /\ UNCHANGED <<jobs, nextjid, mask, prev_mask, pending, hstack, argv,
                   wjob, out, lastkill, obs, typed, reg, handlers, loop_i, added>>

EvalAddjob ==
    /\ InMain /\ pc = "addjob"
    /\ LET r == addjob(jobs, nextjid, chld_pid, IF argv.bg THEN BG ELSE FG, cmdline(argv))
       IN /\ jobs' = r.jobs
          /\ nextjid' = r.nextjid
          /\ out' = IF r.msg = "" THEN out ELSE Rec(out, Line(r.msg, 0, 0, ""))
          /\ added' = Rec(added, IF argv.bg /\ r.ret = 1 THEN r.jobs[r.slot].jid ELSE 0)
    /\ pc' = "unblock"
    /\ UNCHANGED <<mask, prev_mask, pending, hstack, procs, chld_pid, argv, wjob, lastkill, obs, typed, reg, handlers, loop_i>>

\* sigprocmask(SIG_SETMASK, &eval_prev_mask, NULL)
EvalUnblock ==
    /\ InMain /\ pc = "unblock"
    /\ mask' = prev_mask
    /\ pc' = IF argv.bg THEN "print" ELSE "waitfg"
    /\ UNCHANGED <<jobs, nextjid, prev_mask, pending, hstack, procs, chld_pid,
                   argv, wjob, out, lastkill, obs, typed, reg, handlers, loop_i, added>>

\* printf("[%d] (%d) %s", nextjid-1, chld_pid, cmdline), and eval returns
EvalPrint ==
    /\ InMain /\ pc = "print"
    /\ out' = Rec(out, Line("jobline", nextjid - 1, chld_pid, cmdline(argv)))
    /\ pc' = "read"
    /\ chld_pid' = 0
    /\ argv' = NoArgv
    /\ added' = 0
    /\ UNCHANGED <<jobs, nextjid, mask, prev_mask, pending, hstack, procs,
                   wjob, lastkill, obs, typed, reg, handlers, loop_i>>

(***************************************************************************)
(* waitfg                                                                  *)
(***************************************************************************)
\* the outer loop: look the job up, return when there is none
WaitfgLookup ==
    /\ InMain /\ pc = "waitfg"
    /\ LET i == getjobpid(jobs, chld_pid)
       IN IF i = 0
          THEN /\ pc' = "read"
               /\ wjob' = 0
               /\ chld_pid' = 0
               /\ argv' = NoArgv
          ELSE /\ pc' = "waitfg_in"
               /\ wjob' = i
               /\ UNCHANGED <<chld_pid, argv>>
    /\ UNCHANGED <<jobs, nextjid, mask, prev_mask, pending, hstack, procs,
                   out, lastkill, obs, typed, reg, handlers, loop_i, added>>

\* waitfg returning as soon as it has found the job
waitfg_check_no_wait(job, pid) ==
    IF job.pid # pid THEN "waitfg" ELSE "read"

\* waitfg with the test of the state inverted
waitfg_check_inverted(job, pid) ==
    IF job.pid # pid THEN "waitfg"
    ELSE IF job.state = FG THEN "read"
    ELSE "sleep"

\* what one pass of the inner loop does with the job it holds: back to the
\* lookup, return, or sleep(1)
waitfg_check(job, pid) ==
    IF job.pid # pid THEN "waitfg"
    ELSE IF job.state # FG THEN "read"
    ELSE "sleep"

WaitfgCheck ==
    /\ InMain /\ pc = "waitfg_in"
    /\ pc' = waitfg_check(jobs[wjob], chld_pid)
    /\ wjob' = IF pc' = "read" THEN 0 ELSE wjob
    /\ chld_pid' = IF pc' = "read" THEN 0 ELSE chld_pid
    /\ argv' = IF pc' = "read" THEN NoArgv ELSE argv
    /\ UNCHANGED <<jobs, nextjid, mask, prev_mask, pending, hstack, procs,
                   out, lastkill, obs, typed, reg, handlers, loop_i, added>>

\* sleep(1) returns
WaitfgWake ==
    /\ InMain /\ pc = "sleep"
    /\ pc' = "waitfg_in"
    /\ UNCHANGED <<jobs, nextjid, mask, prev_mask, pending, hstack, procs,
                   chld_pid, argv, wjob, out, lastkill, obs, typed, reg, handlers, loop_i, added>>

(***************************************************************************)
(* The kernel: children change state, the keyboard sends signals, and a    *)
(* pending signal that is not blocked is delivered                         *)
(***************************************************************************)
\* what execve can return: it returns only when it fails, and then -1
ExecveReturns == {-1}

\* the child testing execve_err > 0
child_after_execve_inverted(execve_err) ==
    IF execve_err > 0 THEN "notfound" ELSE "parent"

\* the child after execve has returned (lines 206-210): with execve_err < 0
\* it prints Command not found and exits, otherwise it prints the debug line
\* and runs on into the parent's part of eval
child_after_execve(execve_err) ==
    IF execve_err < 0 THEN "notfound" ELSE "parent"

\* the child's branch of eval: setpgrp, sigprocmask, execve.  The program
\* image is replaced, or execve returns
ChildExecve(p) ==
    /\ Alive /\ procs[p] = "child"
    /\ \/ procs' = [procs EXCEPT ![p] = "run"]
       \/ \E execve_err \in ExecveReturns :
            procs' = [procs EXCEPT ![p] = child_after_execve(execve_err)]
    /\ UNCHANGED <<jobs, nextjid, pc, mask, prev_mask, pending, hstack, chld_pid, argv,
                   wjob, out, lastkill, obs, typed, reg, handlers, loop_i, added>>

\* the child whose execve failed: printf("%s: Command not found.\n"), exit(0)
ChildNotFound(p) ==
    /\ Alive /\ procs[p] = "notfound"
    /\ procs' = [procs EXCEPT ![p] = "zombie"]
    /\ pending' = pending \cup {SIGCHLD}
    /\ UNCHANGED <<jobs, nextjid, pc, mask, prev_mask, hstack, chld_pid, argv,
                   wjob, out, lastkill, obs, typed, reg, handlers, loop_i, added>>

\* the program a child runs comes to its end
ChildExit(p) ==
    /\ Alive /\ procs[p] = "run"
    /\ procs' = [procs EXCEPT ![p] = "zombie"]
    /\ pending' = pending \cup {SIGCHLD}
    /\ UNCHANGED <<jobs, nextjid, pc, mask, prev_mask, hstack, chld_pid, argv,
                   wjob, out, lastkill, obs, typed, reg, handlers, loop_i, added>>

\* a child is terminated by a signal from outside the shell
ChildKilled(p) ==
    /\ Alive /\ procs[p] \in {"run", "stopping", "stopped"}
    /\ procs' = [procs EXCEPT ![p] = "zombie"]
    /\ pending' = pending \cup {SIGCHLD}
    /\ UNCHANGED <<jobs, nextjid, pc, mask, prev_mask, hstack, chld_pid, argv,
                   wjob, out, lastkill, obs, typed, reg, handlers, loop_i, added>>

\* a child is stopped by a signal from outside the shell, or stops itself
ChildStop(p) ==
    /\ Alive /\ procs[p] = "run"
    /\ procs' = [procs EXCEPT ![p] = "stopping"]
    /\ pending' = pending \cup {SIGCHLD}
    /\ UNCHANGED <<jobs, nextjid, pc, mask, prev_mask, hstack, chld_pid, argv,
                   wjob, out, lastkill, obs, typed, reg, handlers, loop_i, added>>

\* ctrl-c or ctrl-z at the keyboard
Keyboard(sig) ==
    /\ Alive /\ sig \notin pending
    /\ pending' = pending \cup {sig}
    /\ UNCHANGED <<jobs, nextjid, pc, mask, prev_mask, hstack, procs, chld_pid,
                   argv, wjob, out, lastkill, obs, typed, reg, handlers, loop_i, added>>

\* Signal() installs each handler with an empty sa_mask and no SA_NODEFER:
\* the handler runs with its own signal added to the mask, and its return
\* restores the mask of before
DeliverChld ==
    /\ Alive /\ SIGCHLD \in pending /\ SIGCHLD \notin mask /\ SIGCHLD \in handlers
    /\ pending' = pending \ {SIGCHLD}
    /\ hstack' = Append(hstack, Frame(SIGCHLD, "waitpid", 0, mask))
    /\ mask' = mask \cup {SIGCHLD}
    /\ UNCHANGED <<jobs, nextjid, pc, prev_mask, procs, chld_pid, argv, wjob, out, lastkill, obs, typed, reg, handlers, loop_i, added>>

(***************************************************************************)
(* sigint_handler and sigtstp_handler.  Neither stores to the table; each  *)
(* reads it once (fgpid) and calls kill.  A handler that interrupts one of *)
(* them between the two calls can only stop or reap the process about to   *)
(* be signalled, and kill then changes nothing, so the handler is one step *)
(* taken at the point the signal is delivered.                             *)
(***************************************************************************)
\* the process group the handler signals, from the pid fgpid returned:
\* kill(-pid, sig)
kill_target(fg_pid) == fg_pid

KbdHandler(sig) ==
    /\ Alive /\ sig \in pending /\ sig \notin mask /\ sig \in handlers
    /\ LET k == KillEffect(procs, kill_target(fgpid(jobs)), sig, pending \ {sig})
       IN /\ procs' = k.procs
          /\ pending' = k.pending
    /\ lastkill' = Rec(lastkill, [pgid |-> kill_target(fgpid(jobs)), sig |-> sig])
    /\ UNCHANGED <<jobs, nextjid, pc, mask, prev_mask, hstack, chld_pid, argv,
                   wjob, out, obs, typed, reg, handlers, loop_i, added>>

(***************************************************************************)
(* sigchld_handler.  One step per store that another handler can tell      *)
(* apart: sigint_handler and sigtstp_handler read pid and state only, so   *)
(* clearjob's stores to pid and jid are one step and its stores to state   *)
(* and cmdline, with deletejob's store to nextjid, are the next.           *)
(***************************************************************************)
\* the children waitpid(-1, &status, WUNTRACED | WNOHANG) can report
Reportable == {p \in Pids : procs[p] \in {"stopping", "zombie"}}

InChld == Alive /\ hstack # <<>> /\ Top.sig = SIGCHLD

\* waitpid without WNOHANG: with children that have nothing to report it
\* does not return
waitpid_blocking ==
    IF Reportable # {} THEN Reportable
    ELSE IF \A p \in Pids : procs[p] = "none" THEN {-1} ELSE {}

\* what waitpid(-1, &chld_status, WUNTRACED | WNOHANG) can return: a child
\* with a change to report, else -1 with no child at all and 0 otherwise
waitpid ==
    IF Reportable # {} THEN Reportable
    ELSE IF \A p \in Pids : procs[p] = "none" THEN {-1} ELSE {0}

\* waitpid returns 0 or -1: the loop breaks and the handler returns
ChldReturn ==
    /\ InChld /\ Top.step = "waitpid"
    /\ \E wait_pid \in waitpid : wait_pid < 1
    /\ mask' = Top.saved
    /\ hstack' = Pop
    /\ UNCHANGED <<jobs, nextjid, pc, prev_mask, pending, procs, chld_pid, argv,
                   wjob, out, lastkill, obs, typed, reg, handlers, loop_i, added>>

\* a stopped child handled like a terminated one
chld_stopped_clears(J, i) == [J EXCEPT ![i] = clearjob(J[i])]

\* the table after the handler has dealt with a stopped child found in slot i
chld_stopped(J, i) == [J EXCEPT ![i].state = ST]

\* waitpid returns a stopped child (WIFSTOPPED):
\* getjobpid(jobs, wait_pid)->state = ST; with no such job the store goes
\* through a null pointer
ChldStopped(p) ==
    /\ InChld /\ Top.step = "waitpid"
    /\ p \in waitpid /\ procs[p] = "stopping"
    /\ procs' = [procs EXCEPT ![p] = "stopped"]
    /\ LET i == getjobpid(jobs, p)
       IN IF i = 0
          THEN /\ pc' = "crashed"
               /\ UNCHANGED <<jobs, hstack>>
          ELSE /\ jobs' = chld_stopped(jobs, i)
               /\ hstack' = hstack
               /\ pc' = pc
    /\ UNCHANGED <<nextjid, mask, prev_mask, pending, chld_pid, argv, wjob, out, lastkill, obs, typed, reg, handlers, loop_i, added>>

\* the first two stores of clearjob
clear_pid_jid(job) == [job EXCEPT !.pid = 0, !.jid = 0]

\* the last two stores of clearjob
clear_state_cmdline(job) == [job EXCEPT !.state = UNDEF, !.cmdline = ""]

\* waitpid reaps a terminated child (WIFSIGNALED or WIFEXITED):
\* deletejob(jobs, wait_pid) finds the slot and clearjob starts
ChldTerminated(p) ==
    /\ InChld /\ Top.step = "waitpid"
    /\ p \in waitpid /\ procs[p] = "zombie"
    /\ procs' = [procs EXCEPT ![p] = "none"]
    /\ LET i == deletejob(jobs, nextjid, p).slot
       IN IF i = 0
          THEN /\ hstack' = hstack
               /\ jobs' = jobs
          ELSE /\ jobs' = [jobs EXCEPT ![i] = clear_pid_jid(jobs[i])]
               /\ hstack' = SetTop([Top EXCEPT !.step = "clearjob", !.slot = i])
    /\ UNCHANGED <<nextjid, pc, mask, prev_mask, pending, chld_pid, argv, wjob, out, lastkill, obs, typed, reg, handlers, loop_i, added>>

\* clearjob ends, nextjid = maxjid(jobs) + 1, and the loop goes round
ChldClear ==
    /\ InChld /\ Top.step = "clearjob"
    /\ LET J2 == [jobs EXCEPT ![Top.slot] = clear_state_cmdline(jobs[Top.slot])]
       IN /\ jobs' = J2
          /\ nextjid' = maxjid(J2) + 1
    /\ hstack' = SetTop([Top EXCEPT !.step = "waitpid", !.slot = 0])
    /\ UNCHANGED <<pc, mask, prev_mask, pending, procs, chld_pid, argv, wjob, out, lastkill, obs, typed, reg, handlers, loop_i, added>>

(***************************************************************************)
(* The shell                                                               *)
(***************************************************************************)
Next ==
    \/ ReadQuit
    \/ ReadBlank
    \/ ReadJobs
    \/ ListTest
    \/ ListHead
    \/ ListState
    \/ ListCmdline
    \/ \E name \in {"bg", "fg"} : \E arg \in BgFgArgs : ReadBgFg(name, arg)
    \/ \E bg \in BOOLEAN : ReadExternal(bg)
    \/ EvalFork
    \/ EvalAddjob
    \/ EvalUnblock
    \/ EvalPrint
    \/ WaitfgLookup
    \/ WaitfgCheck
    \/ WaitfgWake
    \/ \E p \in Pids : ChildExecve(p)
    \/ \E p \in Pids : ChildNotFound(p)
    \/ \E p \in Pids : ChildExit(p)
    \/ \E p \in Pids : ChildKilled(p)
    \/ \E p \in Pids : ChildStop(p)
    \/ \E sig \in {SIGINT, SIGTSTP} : Keyboard(sig)
    \/ DeliverChld
    \/ \E sig \in {SIGINT, SIGTSTP} : KbdHandler(sig)
    \/ ChldReturn
    \/ \E p \in Pids : ChldStopped(p)
    \/ \E p \in Pids : ChldTerminated(p)
    \/ ChldClear

Spec == Init /\ [][Next]_vars

ObsSpec == ObsInit /\ [][Next]_vars

(***************************************************************************)
(* The shell as the kernel schedules it, running external commands.  The   *)
(* main flow goes on whenever it is not held up by a signal again and      *)
(* again; a pending signal that is not blocked is delivered; a handler     *)
(* that has started runs on.  Nothing is assumed of the user or of the     *)
(* children.                                                               *)
(***************************************************************************)
LiveNext ==
    \/ \E bg \in BOOLEAN : ReadExternal(bg)
    \/ EvalFork
    \/ EvalAddjob
    \/ EvalUnblock
    \/ EvalPrint
    \/ WaitfgLookup
    \/ WaitfgCheck
    \/ WaitfgWake
    \/ \E p \in Pids : ChildExecve(p)
    \/ \E p \in Pids : ChildNotFound(p)
    \/ \E p \in Pids : ChildExit(p)
    \/ \E sig \in {SIGINT, SIGTSTP} : Keyboard(sig)
    \/ DeliverChld
    \/ \E sig \in {SIGINT, SIGTSTP} : KbdHandler(sig)
    \/ ChldReturn
    \/ \E p \in Pids : ChldStopped(p)
    \/ \E p \in Pids : ChldTerminated(p)
    \/ ChldClear

MainStep ==
    \/ EvalFork \/ EvalAddjob \/ EvalUnblock \/ EvalPrint
    \/ WaitfgLookup \/ WaitfgCheck \/ WaitfgWake

HandlerStep ==
    \/ ChldReturn
    \/ \E p \in Pids : ChldStopped(p)
    \/ \E p \in Pids : ChldTerminated(p)
    \/ ChldClear

Scheduling ==
    /\ SF_vars(MainStep)
    /\ WF_vars(DeliverChld)
    /\ WF_vars(\E sig \in {SIGINT, SIGTSTP} : KbdHandler(sig))
    /\ WF_vars(HandlerStep)

LiveSpec == Init /\ [][LiveNext]_vars /\ Scheduling

(***************************************************************************)
(* main before the read/eval loop: the three Signal() calls, then          *)
(* initjobs.  jobs[] has static storage, so every field is zero before     *)
(* initjobs clears it.                                                     *)
(***************************************************************************)
BootInit ==
    /\ jobs = [i \in Slots |-> EmptyJob]
    /\ nextjid = 1
    /\ pc = "signal"
    /\ mask = {}
    /\ prev_mask = {}
    /\ pending = {}
    /\ hstack = <<>>
    /\ procs = [p \in Pids |-> "none"]
    /\ chld_pid = 0
    /\ argv = NoArgv
    /\ wjob = 0
    /\ obs = FALSE
    /\ typed = NoArgv
    /\ out = NoOut
    /\ lastkill = NoKill
    /\ reg = NoReg
    /\ handlers = {}
    /\ loop_i = 0
    /\ added = 0

\* the order of the Signal() calls of lines 137-139
SignalOrder == <<SIGINT, SIGTSTP, SIGCHLD>>

\* one Signal() call; after the last, main goes on to initjobs
MainSignal ==
    /\ InMain /\ pc = "signal"
    /\ LET n == Cardinality(handlers) + 1
       IN /\ handlers' = handlers \cup {SignalOrder[n]}
          /\ pc' = IF n = Len(SignalOrder) THEN "initjobs" ELSE "signal"
          /\ loop_i' = IF n = Len(SignalOrder) THEN 1 ELSE 0
    /\ UNCHANGED <<jobs, nextjid, mask, prev_mask, pending, hstack, procs, chld_pid,
                   argv, wjob, obs, typed, out, lastkill, reg, added>>

\* one round of initjobs' loop: clearjob(&jobs[i])
MainInitjobs ==
    /\ InMain /\ pc = "initjobs"
    /\ jobs' = [jobs EXCEPT ![loop_i] = clearjob(jobs[loop_i])]
    /\ IF loop_i = MAXJOBS
       THEN pc' = "read" /\ loop_i' = 0
       ELSE pc' = pc /\ loop_i' = loop_i + 1
    /\ UNCHANGED <<nextjid, mask, prev_mask, pending, hstack, procs, chld_pid,
                   argv, wjob, obs, typed, out, lastkill, reg, handlers, added>>

\* a keyboard signal delivered before its handler is installed: the default
\* action of SIGINT terminates the shell, that of SIGTSTP stops it until it
\* is continued from outside
DefaultAction(sig) ==
    /\ Alive /\ sig \in pending /\ sig \notin mask /\ sig \notin handlers
    /\ pending' = pending \ {sig}
    /\ pc' = IF sig = SIGINT THEN "exited" ELSE pc
    /\ UNCHANGED <<jobs, nextjid, mask, prev_mask, hstack, procs, chld_pid,
                   argv, wjob, obs, typed, out, lastkill, reg, handlers, loop_i, added>>

BootNext ==
    \/ MainSignal
    \/ MainInitjobs
    \/ \E sig \in {SIGINT, SIGTSTP} : DefaultAction(sig)
    \/ Next

BootSpec == BootInit /\ [][BootNext]_vars

(***************************************************************************)
(* The job list on its own: addjob and deletejob called in any order.      *)
(* The pid handed to addjob is one no active job holds (fork returns the   *)
(* pid of a new process), or a pid < 1.                                    *)
(***************************************************************************)
AllActive(J) == \A i \in Slots : J[i].pid # 0

ActivePids(J) == {J[i].pid : i \in {k \in Slots : J[k].pid # 0}}

\* the lowest pid no active job holds
FreshPid(J) == CHOOSE p \in 1..(MAXJOBS + 1) :
                 /\ p \notin ActivePids(J)
                 /\ \A q \in 1..(MAXJOBS + 1) : q \notin ActivePids(J) => p <= q

RegAdd(pid, state) ==
    /\ LET r == addjob(jobs, nextjid, pid, state, cmdline(Argv(Prog, <<>>, state = BG)))
       IN /\ jobs' = r.jobs
          /\ nextjid' = r.nextjid
          /\ reg' = [op |-> "addjob", pid |-> pid, ret |-> r.ret,
                     jid |-> IF r.ret = 1 THEN r.jobs[r.slot].jid ELSE reg.jid,
                     prev |-> IF r.ret = 1 THEN reg.jid ELSE reg.prev,
                     full |-> AllActive(jobs), dels |-> reg.dels]
    /\ UNCHANGED shellvars

RegDelete(pid) ==
    /\ reg.dels < MaxRegDeletes
    /\ LET r == deletejob(jobs, nextjid, pid)
       IN /\ jobs' = r.jobs
          /\ nextjid' = r.nextjid
          /\ reg' = [op |-> "deletejob", pid |-> pid, ret |-> r.ret,
                     jid |-> 0, prev |-> 0,
                     full |-> AllActive(jobs), dels |-> reg.dels + 1]
    /\ UNCHANGED shellvars

RegNext ==
    \/ \E pid \in {-1, 0, FreshPid(jobs)} :
         \E state \in {BG} \cup (IF ActivePids(jobs) = {} THEN {FG} ELSE {}) : RegAdd(pid, state)
    \/ \E pid \in ActivePids(jobs) \cup {0, MAXJOBS + 2} : RegDelete(pid)

RegSpec == Init /\ [][RegNext]_vars

(***************************************************************************)
(* The shell after "/bin/prog &" has been run MAXJOBS times: every slot    *)
(* holds a background job, the jids 1..MAXJOBS are handed out and nextjid  *)
(* has wrapped to 1.  The sixteen programs have the pids above MaxPid;     *)
(* they run on and the kernel has nothing to report of them.  A command    *)
(* run now is forked all the same, and addjob returns 0 for it.            *)
(***************************************************************************)
ResidentJob(i) == [pid |-> MaxPid + i, jid |-> i, state |-> BG, cmdline |-> BgCmdline]

FullInit ==
    /\ jobs = [i \in Slots |-> ResidentJob(i)]
    /\ nextjid = 1
    /\ pc = "read"
    /\ mask = {}
    /\ prev_mask = {}
    /\ pending = {}
    /\ hstack = <<>>
    /\ procs = [p \in Pids |-> "none"]
    /\ chld_pid = 0
    /\ argv = NoArgv
    /\ wjob = 0
    /\ obs = FALSE
    /\ typed = NoArgv
    /\ out = NoOut
    /\ lastkill = NoKill
    /\ reg = NoReg
    /\ handlers = {SIGINT, SIGTSTP, SIGCHLD}
    /\ loop_i = 0
    /\ added = 0

\* the steps the shell can take while no slot is free: no job of waitfg's pid
\* is ever found, and no deletejob finds a slot to clear
FullNext ==
    \/ \E bg \in BOOLEAN : ReadExternal(bg)
    \/ EvalFork
    \/ EvalAddjob
    \/ EvalUnblock
    \/ EvalPrint
    \/ WaitfgLookup
    \/ \E p \in Pids : ChildExecve(p)
    \/ \E p \in Pids : ChildNotFound(p)
    \/ \E p \in Pids : ChildExit(p)
    \/ \E p \in Pids : ChildKilled(p)
    \/ \E p \in Pids : ChildStop(p)
    \/ \E sig \in {SIGINT, SIGTSTP} : Keyboard(sig)
    \/ DeliverChld
    \/ \E sig \in {SIGINT, SIGTSTP} : KbdHandler(sig)
    \/ ChldReturn
    \/ \E p \in Pids : ChldStopped(p)
    \/ \E p \in Pids : ChldTerminated(p)

FullSpec == FullInit /\ [][FullNext]_vars

(***************************************************************************)
(* Properties                                                              *)
(***************************************************************************)
ActiveSlots == {i \in Slots : jobs[i].pid # 0}

\* C1: in every reachable state of the shell at most one slot of the job
\* table has state FG
C1_AtMostOneFg == Cardinality({i \in Slots : jobs[i].state = FG}) <= 1

\* a second foreground job runs while an earlier one sits stopped in the table
C1_Witness ==
    \E i, k \in Slots :
        /\ jobs[i].state = FG /\ jobs[i].pid # 0
        /\ jobs[k].state = ST /\ jobs[k].cmdline = FgCmdline

\* C2: no two active slots of the job table carry the same jid, for any
\* sequence of addjob and deletejob calls
C2_UniqueJids ==
    \A i, k \in ActiveSlots : i # k => jobs[i].jid # jobs[k].jid

\* C3: of two consecutive successful addjob calls with no deletejob between
\* them, the second assigns a strictly greater jid than the first
C3_JidsIncrease ==
    (reg.op = "addjob" /\ reg.ret = 1 /\ reg.prev # 0) => reg.jid > reg.prev

\* C4: addjob on a table whose 16 slots are all active returns 0 and leaves
\* every entry unchanged; addjob with pid < 1 returns 0 and changes nothing
C4_FailedAddjobChangesNothing ==
    [][reg'.op = "addjob" =>
         /\ AllActive(jobs) => (reg'.ret = 0 /\ jobs' = jobs)
         /\ reg'.pid < 1 => (reg'.ret = 0 /\ jobs' = jobs /\ nextjid' = nextjid)]_vars

\* addjob has just been refused on a full table
C4_Witness ==
    /\ reg.op = "addjob" /\ reg.pid >= 1 /\ reg.full /\ reg.ret = 0
    /\ AllActive(jobs)

\* C5: SIGCHLD, SIGINT and SIGTSTP are blocked and no handler runs from
\* before fork until after addjob, and the child that eval is about to
\* register has not been reaped or marked stopped by sigchld_handler,
\* however early it exited
C5_NoHandlerBeforeAddjob ==
    /\ pc \in {"fork", "addjob", "unblock"} =>
         ({SIGCHLD, SIGINT, SIGTSTP} \subseteq mask /\ hstack = <<>>)
    /\ pc = "addjob" => procs[chld_pid] \notin {"none", "stopped"}

\* the child has exited before eval reached addjob, and SIGCHLD is pending
C5_Witness ==
    pc = "addjob" /\ procs[chld_pid] = "zombie" /\ SIGCHLD \in pending

\* C6: whenever the main loop is about to read the next command line, no
\* job in the table has state FG
C6_NoFgAtRead == pc = "read" => \A i \in Slots : jobs[i].state # FG

\* eval of a foreground command has returned because its job was stopped
C6_Witness ==
    /\ pc = "read" /\ hstack = <<>>
    /\ \E i \in ActiveSlots : jobs[i].state = ST /\ jobs[i].cmdline = FgCmdline

\* C7: sigint_handler and sigtstp_handler send a signal only when a job with
\* state FG exists, and then to the process group of that job; with no FG
\* job they send nothing, never a signal to process group 0
C7_KbdSignalsFgGroupOnly ==
    [][(lastkill' # lastkill /\ lastkill'.sig \in {SIGINT, SIGTSTP}) =>
         /\ lastkill'.pgid # 0
         /\ \E i \in ActiveSlots : jobs[i].state = FG /\ jobs[i].pid = lastkill'.pgid]_vars

\* C8: for a child sigchld_handler reports as stopped, its job stays in the
\* table with the same pid and jid and its state becomes ST, and no other
\* slot changes; for a child it reports as terminated, the slot is cleared
\* (pid 0, jid 0, state UNDEF) by the time the handler polls again
C8_StopKeepsTerminateClears ==
    [][/\ \A p \in Pids :
            (procs[p] = "stopping" /\ procs'[p] = "stopped" /\ getjobpid(jobs, p) # 0) =>
                LET i == getjobpid(jobs, p)
                IN /\ jobs'[i].pid = p
                   /\ jobs'[i].jid = jobs[i].jid
                   /\ jobs'[i].state = ST
                   /\ \A k \in Slots \ {i} : jobs'[k] = jobs[k]
       /\ \A p \in Pids :
            (procs[p] = "zombie" /\ procs'[p] = "none") =>
                /\ getjobpid(jobs', p) = 0
                /\ getjobpid(jobs, p) # 0 =>
                     (hstack' # <<>> /\ hstack'[Len(hstack')].slot = getjobpid(jobs, p))
       /\ (hstack # <<>> /\ Top.slot # 0 /\ hstack' # hstack) =>
            /\ jobs'[Top.slot].pid = 0
            /\ jobs'[Top.slot].jid = 0
            /\ jobs'[Top.slot].state = UNDEF]_vars

\* one run of the handler has cleared the job of a terminated child and
\* marked the job of a stopped child
C8_Witness ==
    /\ hstack # <<>> /\ Top.sig = SIGCHLD /\ Top.step = "waitpid"
    /\ \E i, k \in Slots :
         /\ k < i /\ jobs[k] = EmptyJob
         /\ jobs[i].pid # 0 /\ jobs[i].state = ST /\ procs[jobs[i].pid] = "stopped"

\* the job a bg/fg argument names: digits are a pid, % and digits a jid
AllDigits(s) == s # <<>> /\ \A k \in 1..Len(s) : isdigit(s[k])

NamedJob(J, arg) ==
    IF AllDigits(arg) THEN getjobpid(J, atoi(arg))
    ELSE IF arg # <<>> /\ arg[1] = "%" /\ AllDigits(Tail(arg)) THEN getjobjid(J, atoi(Tail(arg)))
    ELSE 0

\* C9: bg with an argument that names a job in state ST sets the job's state
\* to BG, sends SIGCONT to its process group, prints [jid] (pid) cmdline and
\* returns without waiting
C9_BgResumesStoppedJob ==
    [][\A arg \in BgFgArgs :
         LET i == NamedJob(jobs, arg)
         IN (i # 0 /\ jobs[i].state = ST /\ ReadBgFg("bg", arg)) =>
              /\ jobs'[i].state = BG
              /\ lastkill' = [pgid |-> jobs[i].pid, sig |-> SIGCONT]
              /\ out' = Line("jobline", jobs[i].jid, jobs[i].pid, jobs[i].cmdline)
              /\ pc' = "read"]_vars

\* C10: fg with an argument that names a job in state ST or BG sends SIGCONT
\* to the job's process group, sets its state to FG and waits: it is not
\* back at the read loop while the job is FG
C10_FgResumesAndWaits ==
    [][\A arg \in BgFgArgs :
         LET i == NamedJob(jobs, arg)
         IN (i # 0 /\ jobs[i].state \in {ST, BG} /\ ReadBgFg("fg", arg)) =>
              /\ lastkill' = [pgid |-> jobs[i].pid, sig |-> SIGCONT]
              /\ jobs'[i].state = FG
              /\ pc' \in {"waitfg", "waitfg_in", "sleep"}]_vars

\* C19: every store to the job table or to nextjid made by the main flow
\* (initjobs, addjob in eval) is made while SIGCHLD, SIGINT and SIGTSTP are
\* blocked or before their handlers are installed, and no handler starts
\* between two rounds of initjobs
C19_MainWritesMasked ==
    [][/\ (MainInitjobs \/ EvalAddjob) =>
            (eval_mask \subseteq mask \/ handlers \cap eval_mask = {})
       /\ (pc = "initjobs" /\ loop_i > 1) =>
            ~(DeliverChld \/ \E sig \in {SIGINT, SIGTSTP} : KbdHandler(sig))]_vars

\* C14: every line the jobs builtin prints describes an active job, with its
\* jid and pid (neither of them 0) and a label that is Running, Foreground or
\* Stopped, whatever sigchld_handler does while listjobs runs
C14_ListedJobsActive ==
    /\ pc \in {"list_state", "list_cmd"} => (out.pid # 0 /\ out.jid # 0)
    /\ pc = "list_cmd" => out.kind \in {"Running", "Foreground", "Stopped"}

\* C13: the job id in the line [jid] (pid) cmdline that eval prints for a
\* background job it has registered is the jid addjob stored for that job,
\* whatever nextjid was and whatever sigchld_handler did between the
\* unblocking of the signals and the printf
C13_PrintedJidIsStoredJid ==
    [][(EvalPrint /\ added # 0) => out'.jid = added]_vars

\* C11: bg or fg with no argument, or with an argument that starts with
\* neither a digit nor %, prints its usage message, leaves the job table and
\* nextjid unchanged, sends no signal, starts no process and does not wait
C11_BadArgumentChangesNothing ==
    [][\A name \in {"bg", "fg"} : \A arg \in BgFgArgs :
         (ReadBgFg(name, arg) /\ (arg = <<>> \/ ~(isdigit(arg[1]) \/ arg[1] = "%"))) =>
              /\ out' = Line(IF arg = <<>> THEN "requires" ELSE "must be", 0, 0, name)
              /\ UNCHANGED <<jobs, nextjid, procs, pending, lastkill>>
              /\ pc' = "read"]_vars

\* C12: do_bgfg classifies its argument by its whole form: only digits is a
\* pid, % followed only by digits is a jid, and any other form gets the
\* message <name>: argument must be a PID or %jobid
C12_ArgumentClassifiedByWholeForm ==
    [][\A name \in {"bg", "fg"} : \A arg \in BgFgArgs \ {<<>>} :
         ReadBgFg(name, arg) =>
            IF AllDigits(arg)
            THEN getjobpid(jobs, atoi(arg)) = 0 =>
                    out' = Line("No such process", 0, atoi(arg), "")
            ELSE IF arg[1] = "%" /\ AllDigits(Tail(arg))
            THEN getjobjid(jobs, atoi(Tail(arg))) = 0 =>
                    out' = Line("No such job", 0, 0, "")
            ELSE out' = Line("must be", 0, 0, name)]_vars

\* C18: deletejob(pid) with pid < 1 or with no active slot holding pid returns
\* 0 and changes neither the table nor nextjid; when a slot holds pid it
\* clears that slot, leaves every other slot as it was, and sets nextjid to
\* the largest jid among the jobs still active plus 1 (1 for an empty table)
C18_DeletejobClearsOneSlot ==
    [][reg'.op = "deletejob" =>
         LET held == {i \in ActiveSlots : jobs[i].pid = reg'.pid}
         IN IF held = {}
            THEN reg'.ret = 0 /\ jobs' = jobs /\ nextjid' = nextjid
            ELSE \E i \in held :
                   /\ reg'.ret = 1
                   /\ jobs'[i] = EmptyJob
                   /\ \A k \in Slots \ {i} : jobs'[k] = jobs[k]
                   /\ LET rest == {jobs[k].jid : k \in ActiveSlots \ {i}}
                      IN nextjid' = IF rest = {} THEN 1
                                    ELSE 1 + CHOOSE m \in rest : \A x \in rest : x <= m]_vars

\* deletejob has removed a job that did not hold the largest jid
C18_Witness ==
    /\ reg.op = "deletejob" /\ reg.ret = 1
    /\ \E i \in Slots : jobs[i] = EmptyJob /\ \E k \in ActiveSlots : k > i
    /\ nextjid >= 3

\* C20: the process fork creates in eval never runs the parent's part of
\* eval (addjob, waitfg, the return into the read loop), whether its execve
\* succeeds or fails; when execve fails it goes on to print Command not
\* found and exit
C20_ChildNeverRunsParentPath ==
    \A p \in Pids : procs[p] # "parent"

\* a child's execve has failed after the shell has registered it and gone on
C20_Witness ==
    \E p \in Pids : procs[p] = "notfound" /\ getjobpid(jobs, p) # 0 /\ pc # "addjob"

\* the main flow is in waitfg
Waiting == pc \in {"waitfg", "waitfg_in", "sleep"}

\* C15: when the process of a foreground command has exited, waitfg
\* eventually returns and the main loop reads the next command; a command
\* run with a trailing & gets back to the read loop once its job line is due
C15_ForegroundWaitEnds ==
    ((Waiting /\ procs[chld_pid] = "zombie") \/ pc = "print") ~> (pc = "read")

C17_StopReachesForegroundJob ==
    /\ \A p \in Pids :
         (/\ Waiting /\ chld_pid = p /\ SIGTSTP \in pending /\ procs[p] = "run"
          /\ getjobpid(jobs, p) # 0 /\ jobs[getjobpid(jobs, p)].state = FG)
         ~> (\/ pc = "read" /\ getjobpid(jobs, p) # 0 /\ jobs[getjobpid(jobs, p)].state = ST
             \/ procs[p] \in {"zombie", "none"})
    /\ [][\A i \in Slots :
            (jobs[i].state = ST /\ jobs[i].pid # 0) => jobs'[i].state = ST]_vars

\* C21: whenever sigchld_handler is at its waitpid call, every child that
\* waitpid can report as stopped has an active slot for getjobpid to find,
\* so the store getjobpid(jobs, wait_pid)->state = ST never goes through a
\* null pointer; this includes a child forked while the table was full
C21_StoppedChildHasJob ==
    /\ pc # "crashed"
    /\ (InChld /\ Top.step = "waitpid") =>
         \A p \in Pids : (p \in waitpid /\ procs[p] = "stopping") => getjobpid(jobs, p) # 0

\* a slot as the job list means it: empty, or active with every field set
WellFormed(job) ==
    \/ job.pid = 0 /\ job.jid = 0 /\ job.state = UNDEF
    \/ job.pid >= 1 /\ job.jid >= 1 /\ job.state \in {FG, BG, ST}

\* some installed handler's signal is not blocked: were it to arrive now,
\* the handler would run on top of the code that is running
HandlerCanRun == Alive /\ handlers \ mask # {}

\* C22: whenever a handler can run, and whenever the main loop is about to
\* read a command, every slot of the table is either empty (pid 0, jid 0,
\* UNDEF) or active (pid >= 1, jid >= 1, state FG, BG or ST); no handler
\* can see a slot with only some of its fields stored
C22_TableWellFormed ==
    (HandlerCanRun \/ (pc = "read" /\ hstack = <<>>)) =>
        \A i \in Slots : WellFormed(jobs[i])

====
